---- MODULE Spec2Model ----
(***************************************************************************)
(* Membership reconciliation of the room server: updateMemberships and the *)
(* functions it calls (pairUpChanges, membershipChanges, updateMembership, *)
(* updateToInviteMembership, updateToJoinMembership,                       *)
(* updateToLeaveMembership), run against a per-participant membership      *)
(* updater and an event store, followed by the caller's commit (publishing *)
(* the output events to a consumer) or rollback.                           *)
(***************************************************************************)
EXTENDS Integers, Sequences, FiniteSets, TLC

VARIABLES
    pc,             \* "idle" | "returned" (main), "pair" | "paired" (pairer)
    handle,         \* state key NID -> membership row and invites of the participant
    pre,            \* the handle state when the running transaction began
    consumer,       \* user ID -> invite event IDs a replaying consumer holds
    removed,        \* input of the last call: removed state entries
    added,          \* input of the last call: added state entries
    changes,        \* the changes of the last call, in the order they were processed
    fault,          \* the collaborator failure injected into the last call
    updates,        \* the output events the last call returned
    status,         \* "none" | "ok" | "error" | "panic"
    errKind,        \* which error the last call returned
    failedAt,       \* index in changes of the change that failed (0: none, or the load)
    opened,         \* state key NIDs for which MembershipUpdater was called, in order
    newInviteCount, \* invite event ID -> new-invite events published so far
    retireCount,    \* invite event ID -> retire-invite events published so far
    tx              \* concurrent passes: holder of the participant's lock, state of each pass

vars == <<pc, handle, pre, consumer, removed, added, changes, fault, updates,
          status, errKind, failedAt, opened, newInviteCount, retireCount, tx>>

-----------------------------------------------------------------------------
(* Bounds *)

\* At most this many state key tuples change in one call.
MaxChanges == 2
\* Calls stop once an invite has been notified or retired this many times.
MaxNotify == 2
\* Longest removed / added list handed to the pairer on its own.
MaxPairLen == 2
\* Event NIDs handed to the pairer on its own are 1..MaxPairNID.
MaxPairNID == 2

-----------------------------------------------------------------------------
(* The vocabulary of gomatrixserverlib and roomserver/types *)

Invite == "invite"
Join == "join"
Leave == "leave"
Ban == "ban"

MRoomMemberNID == 5
OtherTypeNID == 1

RoomVersion == "v5"

\* State key NIDs of the two participants.
UserNIDs == {1, 2}

UserID(nid) == IF nid = 1 THEN "@u1" ELSE "@u2"

UserIDs == {UserID(n) : n \in UserNIDs}

\* The events of the room, by event NID.  membership "" is a content without
\* a well-formed membership key; stored = FALSE is an event the store omits.
EventTable ==
    << [eventID |-> "$I1", typeNID |-> MRoomMemberNID, keyNID |-> 1, sender |-> "@u2", membership |-> "invite", stored |-> TRUE],
       [eventID |-> "$I2", typeNID |-> MRoomMemberNID, keyNID |-> 1, sender |-> "@u2", membership |-> "invite", stored |-> TRUE],
       [eventID |-> "$J1", typeNID |-> MRoomMemberNID, keyNID |-> 1, sender |-> "@u1", membership |-> "join",   stored |-> TRUE],
       [eventID |-> "$J2", typeNID |-> MRoomMemberNID, keyNID |-> 1, sender |-> "@u1", membership |-> "join",   stored |-> TRUE],
       [eventID |-> "$L1", typeNID |-> MRoomMemberNID, keyNID |-> 1, sender |-> "@u1", membership |-> "leave",  stored |-> TRUE],
       [eventID |-> "$B1", typeNID |-> MRoomMemberNID, keyNID |-> 1, sender |-> "@u2", membership |-> "ban",    stored |-> TRUE],
       [eventID |-> "$G1", typeNID |-> MRoomMemberNID, keyNID |-> 1, sender |-> "@u1", membership |-> "join",   stored |-> FALSE],
       [eventID |-> "$X1", typeNID |-> MRoomMemberNID, keyNID |-> 1, sender |-> "@u1", membership |-> "knock",  stored |-> TRUE],
       [eventID |-> "$M1", typeNID |-> MRoomMemberNID, keyNID |-> 1, sender |-> "@u1", membership |-> "",       stored |-> TRUE],
       [eventID |-> "$I3", typeNID |-> MRoomMemberNID, keyNID |-> 2, sender |-> "@u1", membership |-> "invite", stored |-> TRUE],
       [eventID |-> "$T1", typeNID |-> OtherTypeNID, keyNID |-> 1, sender |-> "@u1", membership |-> "",       stored |-> TRUE] >>

EventNIDs == DOMAIN EventTable

InviteIDs == {EventTable[n].eventID : n \in {m \in EventNIDs : EventTable[m].membership = Invite}}

StateKeyTuple(n) == [EventTypeNID |-> EventTable[n].typeNID,
                     EventStateKeyNID |-> EventTable[n].keyNID]

StateEntry(n) == [tuple |-> StateKeyTuple(n), EventNID |-> n]

\* The absent event body (a nil *gomatrixserverlib.Event).
Nil == [eventID |-> "", typeNID |-> 0, keyNID |-> 0, sender |-> "", membership |-> "", stored |-> FALSE]

-----------------------------------------------------------------------------
(* The change pairer and the membership filter *)

\* m with key k set to v (a Go map assignment).
MapPut(m, k, v) == [t \in DOMAIN m \cup {k} |-> IF t = k THEN v ELSE m[t]]

\* All the orders in which a Go range over a map holding the values S can run.
Orderings(S) ==
    {f \in [1..Cardinality(S) -> S] : \A i, j \in 1..Cardinality(S) : f[i] = f[j] => i = j}

stateChange(tuple, removedEventNID, addedEventNID) ==
    [tuple |-> tuple, removedEventNID |-> removedEventNID, addedEventNID |-> addedEventNID]

\* First loop of pairUpChanges, from entry i of the added list on.
RECURSIVE PairAdded(_, _, _)
PairAdded(tuples, addedList, i) ==
    IF i > Len(addedList) THEN tuples
    ELSE LET add == addedList[i]
         IN  IF add.tuple \in DOMAIN tuples
             THEN PairAdded(MapPut(tuples, add.tuple,
                                   [tuples[add.tuple] EXCEPT !.addedEventNID = add.EventNID]),
                            addedList, i + 1)
             ELSE PairAdded(MapPut(tuples, add.tuple, stateChange(add.tuple, 0, add.EventNID)),
                            addedList, i + 1)

\* Mutant: the removed entry replaces the change record instead of updating it.
PairRemovedOverwrites(change, remove) == stateChange(remove.tuple, remove.EventNID, 0)

\* The removed entry's update of an existing change record.
PairRemovedHit(change, remove) == [change EXCEPT !.removedEventNID = remove.EventNID]

\* Second loop of pairUpChanges, from entry i of the removed list on.
RECURSIVE PairRemoved(_, _, _)
PairRemoved(tuples, removedList, i) ==
    IF i > Len(removedList) THEN tuples
    ELSE LET remove == removedList[i]
         IN  IF remove.tuple \in DOMAIN tuples
             THEN PairRemoved(MapPut(tuples, remove.tuple,
                                     PairRemovedHit(tuples[remove.tuple], remove)),
                              removedList, i + 1)
             ELSE PairRemoved(MapPut(tuples, remove.tuple,
                                     stateChange(remove.tuple, remove.EventNID, 0)),
                              removedList, i + 1)

\* The map pairUpChanges builds.
PairMap(removedList, addedList) ==
    PairRemoved(PairAdded(<<>>, addedList, 1), removedList, 1)

\* The arrays pairUpChanges can return: the map's values in any iteration order.
pairUpChanges(removedList, addedList) ==
    LET tuples == PairMap(removedList, addedList)
    IN  Orderings({tuples[t] : t \in DOMAIN tuples})

\* Mutant: the filter keeps the changes of every event type.
IsAnyChange(c) == TRUE

IsMemberChange(c) == c.tuple.EventTypeNID = MRoomMemberNID

\* The arrays membershipChanges can return.
membershipChanges(removedList, addedList) ==
    {SelectSeq(p, IsMemberChange) : p \in pairUpChanges(removedList, addedList)}

-----------------------------------------------------------------------------
(* The membership updater of one participant (types.MembershipUpdater) *)

\* A participant the room has never seen: neither joined nor invited.
FreshHandle == [membership |-> Leave, eventRef |-> "", invites |-> {}, retired |-> {}]

Outstanding(h) == h.invites \ h.retired

IsJoin(h) == h.membership = Join

IsLeave(h) == h.membership = Leave

\* A set of event IDs as the list the updater returns it in.
RECURSIVE IDList(_)
IDList(S) ==
    IF S = {} THEN <<>>
    ELSE LET x == CHOOSE y \in S : TRUE IN <<x>> \o IDList(S \ {x})

\* needsSending is whether the invite was not recorded before.
SetToInvite(h, event) ==
    [needsSending |-> event.eventID \notin h.invites,
     h |-> [h EXCEPT !.invites = @ \cup {event.eventID},
                     !.membership = Invite,
                     !.eventRef = IF h.membership = Invite THEN @ ELSE ""]]

SetToJoin(h, senderUserID, eventID, isUpdate) ==
    [retired |-> IF isUpdate THEN <<>> ELSE IDList(Outstanding(h)),
     h |-> [h EXCEPT !.retired = IF isUpdate THEN @ ELSE h.invites,
                     !.membership = Join,
                     !.eventRef = eventID]]

SetToLeave(h, senderUserID, eventID) ==
    [retired |-> IDList(Outstanding(h)),
     h |-> [h EXCEPT !.retired = h.invites,
                     !.membership = Leave,
                     !.eventRef = eventID]]

-----------------------------------------------------------------------------
(* Collaborator failures *)

NoFault == [kind |-> "none", user |-> 0]

\* The batch load fails; opening the updater of a participant fails; the
\* updater's set operations of a participant fail.
Faults ==
    {NoFault, [kind |-> "events", user |-> 0]}
        \cup {[kind |-> k, user |-> u] : k \in {"open", "op"}, u \in UserNIDs}

OpFails(flt, userNID) == flt.kind = "op" /\ flt.user = userNID

OpenFails(flt, userNID) == flt.kind = "open" /\ flt.user = userNID

-----------------------------------------------------------------------------
(* Output events *)

\* Mutant: the new-invite event does not carry the room version.
OutputNewInviteEventNoVersion(event, roomVersion) ==
    [Type |-> "new_invite_event", Event |-> event, RoomVersion |-> ""]

OutputNewInviteEvent(event, roomVersion) ==
    [Type |-> "new_invite_event", Event |-> event, RoomVersion |-> roomVersion]

\* Mutant: the retire-invite event names the retiring event as the invite.
OutputRetireInviteEventSwapped(eventID, membership, retiredBy, target) ==
    [Type |-> "retire_invite_event", EventID |-> retiredBy, Membership |-> membership,
     RetiredByEventID |-> eventID, TargetUserID |-> target]

OutputRetireInviteEvent(eventID, membership, retiredBy, target) ==
    [Type |-> "retire_invite_event", EventID |-> eventID, Membership |-> membership,
     RetiredByEventID |-> retiredBy, TargetUserID |-> target]

\* One retire-invite event per retired invite, in the order of the list.
RECURSIVE RetireEvents(_, _, _, _)
RetireEvents(retired, membership, retiredBy, target) ==
    IF retired = <<>> THEN <<>>
    ELSE <<OutputRetireInviteEvent(Head(retired), membership, retiredBy, target)>>
             \o RetireEvents(Tail(retired), membership, retiredBy, target)

-----------------------------------------------------------------------------
(* updateMembership and the three transitions.  Each returns                *)
(* [mu, updates, err]: the updater afterwards, the returned list (<<>> for *)
(* nil) and the error ("" for nil).                                        *)

Result(mu, upd, err) == [mu |-> mu, updates |-> upd, err |-> err]

\* Mutant: needsSending is ignored and every invite is sent.
InviteAlwaysSent(r) == TRUE

\* Whether the new-invite event is appended after SetToInvite.
InviteNeedsSending(r) == r.needsSending

\* Mutant: the new-invite event replaces the list instead of extending it.
updateToInviteMembershipResets(mu, add, upd, roomVersion, opFails) ==
    IF opFails THEN Result(mu, <<>>, "StoreError")
    ELSE LET r == SetToInvite(mu, add)
         IN  IF InviteNeedsSending(r)
             THEN Result(r.h, <<OutputNewInviteEvent(add, roomVersion)>>, "")
             ELSE Result(r.h, upd, "")

updateToInviteMembership(mu, add, upd, roomVersion, opFails) ==
    IF opFails THEN Result(mu, <<>>, "StoreError")
    ELSE LET r == SetToInvite(mu, add)
         IN  IF InviteNeedsSending(r)
             THEN Result(r.h, Append(upd, OutputNewInviteEvent(add, roomVersion)), "")
             ELSE Result(r.h, upd, "")

\* Mutant: a join's retire-invite events carry leave.
JoinRetireMembershipLeave == Leave

\* The membership a join's retire-invite events carry.
JoinRetireMembership == Join

\* Mutant: the join retires the invites without appending retire-invite events.
updateToJoinMembershipSilent(mu, add, upd, opFails) ==
    IF opFails THEN Result(mu, <<>>, "StoreError")
    ELSE Result(SetToJoin(mu, add.sender, add.eventID, IsJoin(mu)).h, upd, "")

\* Mutant: the join never retires, as if the updater were always joined.
updateToJoinMembershipGivenNoRetire(isJoin, mu, add, upd, opFails) ==
    IF opFails THEN Result(mu, <<>>, "StoreError")
    ELSE Result(SetToJoin(mu, add.sender, add.eventID, TRUE).h, upd, "")

\* updateToJoinMembership once mu.IsJoin() has answered isJoin.
updateToJoinMembershipGiven(isJoin, mu, add, upd, opFails) ==
    IF isJoin
    THEN IF opFails THEN Result(mu, <<>>, "StoreError")
         ELSE Result(SetToJoin(mu, add.sender, add.eventID, TRUE).h, upd, "")
    ELSE IF opFails THEN Result(mu, <<>>, "StoreError")
         ELSE LET r == SetToJoin(mu, add.sender, add.eventID, FALSE)
              IN  Result(r.h,
                         upd \o RetireEvents(r.retired, JoinRetireMembership, add.eventID,
                                             UserID(add.keyNID)),
                         "")

updateToJoinMembership(mu, add, upd, opFails) ==
    updateToJoinMembershipGiven(IsJoin(mu), mu, add, upd, opFails)

\* Mutant: the retire-invite events of a leave or ban always carry leave.
LeaveRetireMembershipNormalised(newMembership) == Leave

\* The membership a leave's or ban's retire-invite events carry.
LeaveRetireMembership(newMembership) == newMembership

\* Mutant: a leave or ban never sets the updater to leave.
updateToLeaveMembershipKeepsState(mu, add, newMembership, upd, opFails) == Result(mu, upd, "")

\* Mutant: SetToLeave is called whatever IsLeave answered.
updateToLeaveMembershipGivenAlwaysSets(isLeave, mu, add, newMembership, upd, opFails) ==
    IF opFails THEN Result(mu, <<>>, "StoreError")
    ELSE LET r == SetToLeave(mu, add.sender, add.eventID)
         IN  Result(r.h,
                    upd \o RetireEvents(r.retired, LeaveRetireMembership(newMembership),
                                        add.eventID, UserID(add.keyNID)),
                    "")

\* updateToLeaveMembership once mu.IsLeave() has answered isLeave.
updateToLeaveMembershipGiven(isLeave, mu, add, newMembership, upd, opFails) ==
    IF isLeave THEN Result(mu, upd, "")
    ELSE IF opFails THEN Result(mu, <<>>, "StoreError")
         ELSE LET r == SetToLeave(mu, add.sender, add.eventID)
              IN  Result(r.h,
                         upd \o RetireEvents(r.retired, LeaveRetireMembership(newMembership),
                                             add.eventID, UserID(add.keyNID)),
                         "")

updateToLeaveMembership(mu, add, newMembership, upd, opFails) ==
    updateToLeaveMembershipGiven(IsLeave(mu), mu, add, newMembership, upd, opFails)

\* Event.Membership(): the membership key of the content, or an error.
Membership(event) ==
    IF event.membership = "" THEN [value |-> "", err |-> "MembershipParseError"]
    ELSE [value |-> event.membership, err |-> ""]

\* The old and the new membership updateMembership compares.
OldMembership(remove) == IF remove = Nil THEN Leave ELSE Membership(remove).value

NewMembership(add) == IF add = Nil THEN Leave ELSE Membership(add).value

\* Mutant: an unchanged membership always returns early, join included.
NothingChangedJoinToo(oldMembership, newMembership) == oldMembership = newMembership

\* Mutant: an unchanged invite is not skipped either.
NothingChangedNotInvite(oldMembership, newMembership) ==
    oldMembership = newMembership /\ newMembership \notin {Join, Invite}

\* Mutant: only an unchanged leave returns early.
NothingChangedLeaveOnly(oldMembership, newMembership) ==
    oldMembership = newMembership /\ newMembership = Leave

\* The test that returns early because nothing changed.
NothingChanged(oldMembership, newMembership) ==
    oldMembership = newMembership /\ newMembership # Join

\* Mutant: a nil add is skipped without an error.
AddNilSkipped(mu, upd) == Result(mu, upd, "")

\* What updateMembership returns when add is nil.
AddNilResult(mu, upd) == Result(mu, upd, "InvariantViolation")

\* Returns [mu, updates, err, opened]: opened is whether MembershipUpdater
\* was called.  err "panic" stands for the panic of the default case.
updateMembership(mu, targetUserNID, remove, add, upd, flt) ==
    LET withOpen(r, o) == [mu |-> r.mu, updates |-> r.updates, err |-> r.err, opened |-> o]
        oldMembership == OldMembership(remove)
        newMembership == NewMembership(add)
    IN  IF remove # Nil /\ Membership(remove).err # ""
        THEN withOpen(Result(mu, <<>>, Membership(remove).err), FALSE)
        ELSE IF add # Nil /\ Membership(add).err # ""
        THEN withOpen(Result(mu, <<>>, Membership(add).err), FALSE)
        ELSE IF NothingChanged(oldMembership, newMembership)
        THEN withOpen(Result(mu, upd, ""), FALSE)
        ELSE IF add = Nil
        THEN withOpen(AddNilResult(mu, upd), FALSE)
        ELSE IF OpenFails(flt, targetUserNID)
        THEN withOpen(Result(mu, <<>>, "StoreError"), TRUE)
        ELSE withOpen(
                CASE newMembership = Invite ->
                        updateToInviteMembership(mu, add, upd, RoomVersion,
                                                 OpFails(flt, targetUserNID))
                  [] newMembership = Join ->
                        updateToJoinMembership(mu, add, upd, OpFails(flt, targetUserNID))
                  [] newMembership \in {Leave, Ban} ->
                        updateToLeaveMembership(mu, add, newMembership, upd,
                                                OpFails(flt, targetUserNID))
                  [] OTHER -> Result(mu, <<>>, "panic"),
                TRUE)

-----------------------------------------------------------------------------
(* updateMemberships *)

\* The event NIDs updateMemberships collects from the changes.
EventNIDsOf(chs) ==
    ({chs[i].addedEventNID : i \in 1..Len(chs)}
         \cup {chs[i].removedEventNID : i \in 1..Len(chs)}) \ {0}

\* db.Events: the NIDs whose events the store returns; it omits the others.
LoadEvents(eventNIDs) == {n \in eventNIDs : EventTable[n].stored}

\* Mutant: an event the store omitted is looked up as an empty event
\* instead of nil.
LookupZeroValue(events, nid) ==
    IF nid \in events THEN EventTable[nid] ELSE [Nil EXCEPT !.eventID = "$"]

\* eventMap(events).lookup: the loaded body, or nil for an NID that is not
\* among the loaded events.
Lookup(events, nid) == IF nid \in events THEN EventTable[nid] ELSE Nil

\* The outcome of a call: the updaters afterwards, the returned list, how the
\* call ended, and which updaters were opened.
Outcome(h, upd, st, kind, at, op) ==
    [handle |-> h, updates |-> upd, status |-> st, errKind |-> kind, failedAt |-> at,
     opened |-> op]

\* Mutant: the list updateMembership returned is passed on with the error.
FailedCallKeepsUpdates(h, upd, err, at, op) ==
    Outcome(h, upd, IF err = "panic" THEN "panic" ELSE "error", err, at, op)

\* What updateMemberships returns when updateMembership returned an error.
FailedCall(h, upd, err, at, op) ==
    Outcome(h, <<>>, IF err = "panic" THEN "panic" ELSE "error", err, at, op)

\* Mutant: the updater is opened for every change, skipped ones included.
OpensAlways(op, r, targetUserNID) == Append(op, targetUserNID)

\* The participants MembershipUpdater has been called for, after a change
\* for which updateMembership returned r.
Opens(op, r, targetUserNID) == IF r.opened THEN Append(op, targetUserNID) ELSE op

\* The loop over the changes, from change i on.
RECURSIVE ChangeLoop(_, _, _, _, _, _, _)
ChangeLoop(h, chs, events, i, upd, op, flt) ==
    IF i > Len(chs) THEN Outcome(h, upd, "ok", "", 0, op)
    ELSE LET change == chs[i]
             targetUserNID == change.tuple.EventStateKeyNID
             re == IF change.removedEventNID # 0
                   THEN Lookup(events, change.removedEventNID) ELSE Nil
             ae == IF change.addedEventNID # 0
                   THEN Lookup(events, change.addedEventNID) ELSE Nil
             r == updateMembership(h[targetUserNID], targetUserNID, re, ae, upd, flt)
             h2 == [h EXCEPT ![targetUserNID] = r.mu]
             op2 == Opens(op, r, targetUserNID)
         IN  IF r.err # "" THEN FailedCall(h2, r.updates, r.err, i, op2)
             ELSE ChangeLoop(h2, chs, events, i + 1, r.updates, op2, flt)

\* chs is the array membershipChanges returned.
updateMemberships(h, chs, flt) ==
    IF flt.kind = "events" THEN Outcome(h, <<>>, "error", "StoreError", 0, <<>>)
    ELSE ChangeLoop(h, chs, LoadEvents(EventNIDsOf(chs)), 1, <<>>, <<>>, flt)

-----------------------------------------------------------------------------
(* The state deltas handed to updateMemberships: the state resolution keeps *)
(* one event per state key tuple, so each side names a tuple at most once,  *)
(* and a tuple is in the delta because its event changed.                   *)

Tuples == {StateKeyTuple(n) : n \in EventNIDs}

EventsOf(t) == {n \in EventNIDs : StateKeyTuple(n) = t}

\* The NIDs of S in ascending order.
RECURSIVE Ascending(_)
Ascending(S) ==
    IF S = {} THEN <<>>
    ELSE LET m == CHOOSE x \in S : \A y \in S : x <= y
         IN  <<m>> \o Ascending(S \ {m})

EntryList(S) == [i \in 1..Cardinality(S) |-> StateEntry(Ascending(S)[i])]

Deltas ==
    UNION {
        UNION {
            { [removed |-> EntryList({r[t] : t \in T} \ {0}),
               added   |-> EntryList({a[t] : t \in T} \ {0})] :
                a \in {b \in [T -> EventNIDs \cup {0}] :
                          \A t \in T : /\ b[t] \in EventsOf(t) \cup {0}
                                       /\ b[t] # r[t]} } :
            r \in {q \in [T -> EventNIDs \cup {0}] : \A t \in T : q[t] \in EventsOf(t) \cup {0}} } :
        T \in {U \in SUBSET Tuples : Cardinality(U) <= MaxChanges} }

\* A failure of a participant's updater is injected only into a call that
\* has a membership change for that participant.
FaultsFor(d) ==
    {f \in Faults :
        \/ f.user = 0
        \/ \E i \in 1..Len(d.removed \o d.added) :
              (d.removed \o d.added)[i].tuple =
                  [EventTypeNID |-> MRoomMemberNID, EventStateKeyNID |-> f.user]}

-----------------------------------------------------------------------------
(* The consumer of the output events *)

\* A consumer that sees only the output events: a new-invite event adds the
\* invite to its target, a retire-invite event removes it.
RECURSIVE Replay(_, _)
Replay(view, upd) ==
    IF upd = <<>> THEN view
    ELSE LET ev == Head(upd)
         IN  IF ev.Type = "new_invite_event"
             THEN Replay([view EXCEPT ![UserID(ev.Event.keyNID)] = @ \cup {ev.Event.eventID}],
                         Tail(upd))
             ELSE Replay([view EXCEPT ![ev.TargetUserID] = @ \ {ev.EventID}], Tail(upd))

\* How many new-invite events, and how many retire-invite events, of upd
\* name invite id.
NewInvitesOf(upd, id) ==
    LET P(ev) == ev.Type = "new_invite_event" /\ ev.Event.eventID = id
    IN  Len(SelectSeq(upd, P))

RetiresOf(upd, id) ==
    LET P(ev) == ev.Type = "retire_invite_event" /\ ev.EventID = id
    IN  Len(SelectSeq(upd, P))

-----------------------------------------------------------------------------
(* The state machine *)

\* The reconcile passes that may run concurrently on participant 1.
Passes == {1, 2}

\* A pass outside its transaction.
IdlePass == [pc |-> "idle", add |-> 0, seen |-> FALSE, updates |-> <<>>]

\* No pass is inside a transaction and the participant's lock is free.
NoTx == [lock |-> 0, pass |-> [p \in Passes |-> IdlePass]]

Init ==
    /\ pc = "idle"
    /\ handle = [u \in UserNIDs |-> FreshHandle]
    /\ pre = [u \in UserNIDs |-> FreshHandle]
    /\ consumer = [u \in UserIDs |-> {}]
    /\ removed = <<>>
    /\ added = <<>>
    /\ changes = <<>>
    /\ fault = NoFault
    /\ updates = <<>>
    /\ status = "none"
    /\ errKind = ""
    /\ failedAt = 0
    /\ opened = <<>>
    /\ newInviteCount = [id \in InviteIDs |-> 0]
    /\ retireCount = [id \in InviteIDs |-> 0]
    /\ tx = NoTx

\* What a call of updateMemberships on delta d leaves behind when the changes
\* are processed in the order of chs and the collaborators fail as in flt.
Returns(d, flt, chs) ==
    LET out == updateMemberships(handle, chs, flt)
    IN  /\ pc' = "returned"
        /\ pre' = handle
        /\ handle' = out.handle
        /\ removed' = d.removed
        /\ added' = d.added
        /\ changes' = chs
        /\ fault' = flt
        /\ updates' = out.updates
        /\ status' = out.status
        /\ errKind' = out.errKind
        /\ failedAt' = out.failedAt
        /\ opened' = out.opened
        /\ tx' = tx

\* One call of updateMemberships inside a transaction of the caller.
Reconcile ==
    /\ pc = "idle"
    /\ \A id \in InviteIDs : newInviteCount[id] < MaxNotify /\ retireCount[id] < MaxNotify
    /\ \E d \in Deltas :
       \E flt \in FaultsFor(d) :
       \E chs \in membershipChanges(d.removed, d.added) : Returns(d, flt, chs)
    /\ UNCHANGED <<consumer, newInviteCount, retireCount>>

ClearCall ==
    /\ pc' = "idle"
    /\ removed' = <<>>
    /\ added' = <<>>
    /\ changes' = <<>>
    /\ fault' = NoFault
    /\ updates' = <<>>
    /\ status' = "none"
    /\ errKind' = ""
    /\ failedAt' = 0
    /\ opened' = <<>>
    /\ tx' = tx

\* The call succeeded: the caller commits and publishes the output events.
Commit ==
    /\ pc = "returned"
    /\ status = "ok"
    /\ pre' = handle
    /\ consumer' = Replay(consumer, updates)
    /\ newInviteCount' = [id \in InviteIDs |-> newInviteCount[id] + NewInvitesOf(updates, id)]
    /\ retireCount' = [id \in InviteIDs |-> retireCount[id] + RetiresOf(updates, id)]
    /\ ClearCall
    /\ UNCHANGED handle

\* The call failed: the caller rolls the transaction back and publishes nothing.
Rollback ==
    /\ pc = "returned"
    /\ status \in {"error", "panic"}
    /\ handle' = pre
    /\ ClearCall
    /\ UNCHANGED <<pre, consumer, newInviteCount, retireCount>>

Next == Reconcile \/ Commit \/ Rollback

Spec == Init /\ [][Next]_vars

-----------------------------------------------------------------------------
(* The pairer on its own: pairUpChanges applied to arbitrary entry lists,   *)
(* in which a tuple may repeat within one side.                             *)

PairTuples == {t \in Tuples : t.EventStateKeyNID = 1}

PairEntries == {[tuple |-> t, EventNID |-> n] : t \in PairTuples, n \in 1..MaxPairNID}

PairLists == UNION {[1..k -> PairEntries] : k \in 0..MaxPairLen}

InitPair ==
    /\ pc = "pair"
    /\ removed \in PairLists
    /\ added \in PairLists
    /\ handle = [u \in UserNIDs |-> FreshHandle]
    /\ pre = [u \in UserNIDs |-> FreshHandle]
    /\ consumer = [u \in UserIDs |-> {}]
    /\ changes = <<>>
    /\ fault = NoFault
    /\ updates = <<>>
    /\ status = "none"
    /\ errKind = ""
    /\ failedAt = 0
    /\ opened = <<>>
    /\ newInviteCount = [id \in InviteIDs |-> 0]
    /\ retireCount = [id \in InviteIDs |-> 0]
    /\ tx = NoTx

PairUp ==
    /\ pc = "pair"
    /\ \E p \in pairUpChanges(removed, added) : changes' = p
    /\ pc' = "paired"
    /\ UNCHANGED <<handle, pre, consumer, removed, added, fault, updates, status, errKind,
                   failedAt, opened, newInviteCount, retireCount, tx>>

NextPair == PairUp

SpecPair == InitPair /\ [][NextPair]_vars

-----------------------------------------------------------------------------
(* Vocabulary of the properties *)

Returned == pc = "returned"

Range(seq) == {seq[i] : i \in 1..Len(seq)}

Target(i) == changes[i].tuple.EventStateKeyNID

\* The events the last call loaded.
Loaded == LoadEvents(EventNIDsOf(changes))

RemovedEvent(i) == Lookup(Loaded, changes[i].removedEventNID)

AddedEvent(i) == Lookup(Loaded, changes[i].addedEventNID)

\* Both memberships of change i parse.
Parses(i) ==
    /\ RemovedEvent(i) # Nil => Membership(RemovedEvent(i)).err = ""
    /\ AddedEvent(i) # Nil => Membership(AddedEvent(i)).err = ""

Old(i) == OldMembership(RemovedEvent(i))

New(i) == NewMembership(AddedEvent(i))

\* The loop of the last call got as far as change i.
Reached(i) == fault.kind # "events" /\ (status = "ok" \/ failedAt >= i)

EventTarget(ev) ==
    IF ev.Type = "new_invite_event" THEN UserID(ev.Event.keyNID) ELSE ev.TargetUserID

\* The output events of the last call that concern participant u.
UpdatesFor(u) == LET P(ev) == EventTarget(ev) = UserID(u) IN SelectSeq(updates, P)

NewInviteEventsFor(u) ==
    LET P(ev) == ev.Type = "new_invite_event" IN SelectSeq(UpdatesFor(u), P)

-----------------------------------------------------------------------------
(* Properties *)

\* C1: between calls, after the successful calls have been committed and the
\* failed ones rolled back, the consumer that only replayed the output events
\* holds for every participant exactly the invites the participant's updater
\* holds as outstanding.
C1_ConsumerMatchesHandle ==
    pc = "idle" =>
        \A u \in UserNIDs : consumer[UserID(u)] = Outstanding(handle[u])

\* C1 witness: one invite of a participant has been retired while another
\* is still outstanding, and the consumer holds exactly the latter.
C1_Witness ==
    /\ pc = "idle"
    /\ retireCount["$I1"] = 1
    /\ consumer["@u1"] = {"$I2"}
    /\ Outstanding(handle[1]) = {"$I2"}
    /\ consumer["@u2"] = {"$I3"}

\* C2: in a call that succeeds, a change to join for a participant with one
\* outstanding invite yields exactly one retire-invite event (the invite's
\* ID, membership join, retired by the join event, target the participant)
\* and the updater is joined afterwards; a change to join for a participant
\* whose updater is already joined yields no event for them.
C2_JoinRetiresInvite ==
    (Returned /\ status = "ok") =>
        \A i \in 1..Len(changes) :
            New(i) = Join =>
                LET u == Target(i)
                    add == AddedEvent(i)
                IN  /\ \A inv \in InviteIDs :
                          Outstanding(pre[u]) = {inv} =>
                              /\ UpdatesFor(u) =
                                     << [Type |-> "retire_invite_event", EventID |-> inv,
                                         Membership |-> Join,
                                         RetiredByEventID |-> add.eventID,
                                         TargetUserID |-> UserID(u)] >>
                              /\ IsJoin(handle[u])
                    /\ IsJoin(pre[u]) => UpdatesFor(u) = <<>>

\* C2 witness: a join of a participant with exactly one outstanding invite
\* has returned its retire-invite event.
C2_Witness ==
    /\ Returned /\ status = "ok"
    /\ \E i \in 1..Len(changes) :
          /\ New(i) = Join
          /\ Outstanding(pre[Target(i)]) = {"$I1"}
          /\ Len(UpdatesFor(Target(i))) = 1
          /\ IsJoin(handle[Target(i)])

\* C3: in a call that succeeds, a change from another membership to leave or
\* to ban for a participant with one outstanding invite yields exactly one
\* retire-invite event carrying the new membership as it is (leave or ban),
\* the triggering event's ID and the participant; a change to leave or ban
\* for a participant whose updater is already left-or-banned yields no event.
C3_LeaveRetiresInvite ==
    (Returned /\ status = "ok") =>
        \A i \in 1..Len(changes) :
            New(i) \in {Leave, Ban} =>
                LET u == Target(i)
                    add == AddedEvent(i)
                IN  /\ \A inv \in InviteIDs :
                          (Old(i) # New(i) /\ Outstanding(pre[u]) = {inv}) =>
                              /\ UpdatesFor(u) =
                                     << [Type |-> "retire_invite_event", EventID |-> inv,
                                         Membership |-> New(i),
                                         RetiredByEventID |-> add.eventID,
                                         TargetUserID |-> UserID(u)] >>
                              /\ IsLeave(handle[u])
                    /\ IsLeave(pre[u]) => UpdatesFor(u) = <<>>

\* C3 witness: a ban of a participant with exactly one outstanding invite
\* has returned a retire-invite event carrying ban.
C3_Witness ==
    /\ Returned /\ status = "ok"
    /\ \E i \in 1..Len(changes) :
          /\ New(i) = Ban
          /\ Outstanding(pre[Target(i)]) = {"$I2"}
          /\ Len(UpdatesFor(Target(i))) = 1
          /\ UpdatesFor(Target(i))[1].Membership = Ban

\* C4: in a call that succeeds, an invite transition with an invite event the
\* updater has not recorded (as on a fresh updater) yields exactly one
\* new-invite event, carrying the event and the room version; the same
\* transition with an invite event the updater has recorded yields none.
C4_InviteDedup ==
    (Returned /\ status = "ok") =>
        \A i \in 1..Len(changes) :
            (New(i) = Invite /\ Old(i) # Invite) =>
                LET u == Target(i)
                    add == AddedEvent(i)
                IN  IF add.eventID \in pre[u].invites
                    THEN NewInviteEventsFor(u) = <<>>
                    ELSE NewInviteEventsFor(u) =
                             << [Type |-> "new_invite_event", Event |-> add,
                                 RoomVersion |-> RoomVersion] >>

\* C4 witness: the invite transition is applied a second time to the updater
\* that the first application left from a fresh one, and yields nothing.
C4_Witness ==
    /\ Returned /\ status = "ok"
    /\ \E i \in 1..Len(changes) :
          /\ New(i) = Invite /\ Old(i) # Invite
          /\ AddedEvent(i).eventID = "$I1"
          /\ pre[Target(i)] = [FreshHandle EXCEPT !.membership = Invite, !.invites = {"$I1"}]
          /\ newInviteCount["$I1"] = 1
          /\ updates = <<>>

\* C5 as stated: once a successful call has had an invite event as the
\* resolved added event of a change, there is exactly one new-invite event
\* for it over all calls, whatever membership the event replaced.
C5_Original ==
    (Returned /\ status = "ok") =>
        \A i \in 1..Len(changes) :
            New(i) = Invite =>
                newInviteCount[AddedEvent(i).eventID]
                    + NewInvitesOf(updates, AddedEvent(i).eventID) = 1

\* C5 amended: no invite event is ever notified more than once, and once a
\* successful call has had an invite event as the resolved added event of a
\* change whose old membership is not invite, there is exactly one new-invite
\* event for it over all calls.
C5_InviteNotifiedOnce ==
    /\ \A id \in InviteIDs : newInviteCount[id] + NewInvitesOf(updates, id) <= 1
    /\ (Returned /\ status = "ok") =>
          \A i \in 1..Len(changes) :
              (New(i) = Invite /\ Old(i) # Invite) =>
                  newInviteCount[AddedEvent(i).eventID]
                      + NewInvitesOf(updates, AddedEvent(i).eventID) = 1

\* C5 witness: an invite that was notified and later retired is processed
\* again, replacing a join, and is not notified a second time.
C5_Witness ==
    /\ Returned /\ status = "ok"
    /\ \E i \in 1..Len(changes) :
          /\ New(i) = Invite /\ Old(i) = Join
          /\ AddedEvent(i).eventID \in pre[Target(i)].retired
          /\ newInviteCount[AddedEvent(i).eventID] = 1
          /\ NewInvitesOf(updates, AddedEvent(i).eventID) = 0

\* C6: a change whose old membership equals its new membership, the new one
\* not being join, yields no output event for the participant, opens no
\* updater for them and leaves their updater as it was.
C6_NoOpStability ==
    Returned =>
        \A i \in 1..Len(changes) :
            (Parses(i) /\ Old(i) = New(i) /\ New(i) # Join) =>
                LET u == Target(i)
                IN  /\ UpdatesFor(u) = <<>>
                    /\ u \notin Range(opened)
                    /\ handle[u] = pre[u]

\* C6 witness: an invite replaces another invite of a participant whose
\* updater holds the first one, in a call that did emit an event for the
\* other participant.
C6_Witness ==
    /\ Returned /\ status = "ok"
    /\ Len(updates) = 1
    /\ \E i \in 1..Len(changes) :
          /\ Old(i) = Invite /\ New(i) = Invite
          /\ RemovedEvent(i).eventID \in Outstanding(pre[Target(i)])
          /\ AddedEvent(i).eventID \notin handle[Target(i)].invites

\* C7: a call that returns an error returns no output events.
C7_NoPartialSuccess ==
    (Returned /\ status = "error") => updates = <<>>

\* C7 witness: the second change of a call failed after the first one had
\* recorded a new invite, for which it had appended a new-invite event.
C7_Witness ==
    /\ Returned /\ status = "error"
    /\ failedAt = 2
    /\ \E u \in UserNIDs : handle[u].invites # pre[u].invites
    /\ updates = <<>>

\* C8 as stated: a change whose added event cannot be resolved, the event
\* being an invite, join or ban, makes the call fail with InvariantViolation.
C8_Original ==
    Returned =>
        \A i \in 1..Len(changes) :
            ( /\ Reached(i)
              /\ Parses(i)
              /\ changes[i].addedEventNID # 0
              /\ AddedEvent(i) = Nil
              /\ EventTable[changes[i].addedEventNID].membership \in {Invite, Join, Ban} ) =>
                /\ status = "error"
                /\ failedAt = i => errKind = "InvariantViolation"

\* C8 amended: a change the loop reaches whose added event cannot be
\* resolved and whose old membership is not leave makes the call fail at
\* that change with InvariantViolation, with no output events returned and
\* no updater opened for the participant.
C8_MissingAddFails ==
    Returned =>
        \A i \in 1..Len(changes) :
            (Reached(i) /\ Parses(i) /\ AddedEvent(i) = Nil /\ Old(i) # Leave) =>
                /\ status = "error"
                /\ failedAt = i
                /\ errKind = "InvariantViolation"
                /\ updates = <<>>
                /\ Target(i) \notin Range(opened)

\* C8 witness: the store omits the added event of the second change, whose
\* old membership is invite, after the first change had recorded an invite.
C8_Witness ==
    /\ Returned /\ errKind = "InvariantViolation"
    /\ failedAt = 2
    /\ changes[2].addedEventNID # 0
    /\ AddedEvent(2) = Nil
    /\ Old(2) = Invite
    /\ handle[Target(1)].invites # pre[Target(1)].invites

\* C9 as stated: a change the loop reaches whose new membership is none of
\* invite, join, leave, ban makes the call return an InvalidMembershipValue
\* error, whatever the old membership is.
C9_InvalidMembershipIsError ==
    Returned =>
        \A i \in 1..Len(changes) :
            ( /\ Reached(i)
              /\ Parses(i)
              /\ AddedEvent(i) # Nil
              /\ New(i) \notin {Invite, Join, Leave, Ban}
              /\ fault = NoFault ) =>
                /\ status = "error"
                /\ errKind = "InvalidMembershipValue"

\* No tuple is twice in the list.
NoRepeat(list) == \A i, j \in 1..Len(list) : list[i].tuple = list[j].tuple => i = j

\* The event NID the list holds for tuple t, 0 if none.
SideNID(list, t) ==
    IF \E i \in 1..Len(list) : list[i].tuple = t
    THEN list[CHOOSE i \in 1..Len(list) : list[i].tuple = t].EventNID
    ELSE 0

\* C10: when no tuple repeats within one side, pairUpChanges returns exactly
\* one change per tuple present in either list, with addedEventNID the added
\* entry's event NID (0 if the tuple is not added) and removedEventNID the
\* removed entry's (0 if the tuple is not removed), never both 0.
C10_PairingComplete ==
    (pc = "paired" /\ NoRepeat(removed) /\ NoRepeat(added)) =>
        LET present == {e.tuple : e \in Range(removed) \cup Range(added)}
        IN  /\ \A t \in present : Cardinality({i \in 1..Len(changes) : changes[i].tuple = t}) = 1
            /\ \A i \in 1..Len(changes) :
                  /\ changes[i].tuple \in present
                  /\ changes[i].addedEventNID = SideNID(added, changes[i].tuple)
                  /\ changes[i].removedEventNID = SideNID(removed, changes[i].tuple)
                  /\ ~(changes[i].addedEventNID = 0 /\ changes[i].removedEventNID = 0)

\* C10 witness: one tuple is on both sides with different events and another
\* tuple is on the removed side only.
C10_Witness ==
    /\ pc = "paired" /\ NoRepeat(removed) /\ NoRepeat(added)
    /\ Len(changes) = 2
    /\ \E i \in 1..2 : changes[i].addedEventNID = 2 /\ changes[i].removedEventNID = 1
    /\ \E i \in 1..2 : changes[i].addedEventNID = 0 /\ changes[i].removedEventNID # 0

\* C11: a change from join to join is not skipped: when the updater of the
\* participant is joined, the updater is opened and set to join with the new
\* event, so that its event reference becomes the new event's ID; the
\* participant stays joined, no invite is retired or added, and the call
\* returns no output event for the participant.
C11_JoinToJoinUpdatesRef ==
    Returned /\ status = "ok" =>
        \A i \in 1..Len(changes) :
            (/\ RemovedEvent(i) # Nil /\ AddedEvent(i) # Nil
             /\ Parses(i)
             /\ Old(i) = Join /\ New(i) = Join
             /\ IsJoin(pre[Target(i)]))
            => /\ Target(i) \in Range(opened)
               /\ handle[Target(i)].eventRef = AddedEvent(i).eventID
               /\ IsJoin(handle[Target(i)])
               /\ handle[Target(i)].invites = pre[Target(i)].invites
               /\ handle[Target(i)].retired = pre[Target(i)].retired
               /\ UpdatesFor(Target(i)) = <<>>

\* C11 witness: a participant joined by $J1 gets $J2 in place of $J1, and
\* the updater's event reference has moved from $J1 to $J2.
C11_Witness ==
    /\ Returned /\ status = "ok"
    /\ \E i \in 1..Len(changes) :
          /\ Target(i) = 1
          /\ RemovedEvent(i) # Nil /\ RemovedEvent(i).eventID = "$J1"
          /\ AddedEvent(i) # Nil /\ AddedEvent(i).eventID = "$J2"
    /\ IsJoin(pre[1]) /\ pre[1].eventRef = "$J1"
    /\ IsJoin(handle[1]) /\ handle[1].eventRef = "$J2"
    /\ updates = <<>>

-----------------------------------------------------------------------------
(* The life of one invitation: starting from fresh updaters, participant 1  *)
(* is invited, joins and leaves in three successive successful calls.  Each *)
(* call's delta may also carry a change of another state key tuple.         *)

ScenarioTuple == [EventTypeNID |-> MRoomMemberNID, EventStateKeyNID |-> 1]

\* Delta d is the next call of the scenario: the invite of a participant
\* the room has never seen, then the join in place of that invite, then the
\* leave in place of that join.
ScenarioStep(d) ==
    LET r == SideNID(d.removed, ScenarioTuple)
        a == SideNID(d.added, ScenarioTuple)
    IN  /\ a # 0 /\ EventTable[a].stored
        /\ IF handle[1] = FreshHandle
           THEN r = 0 /\ EventTable[a].membership = Invite
           ELSE IF handle[1].membership = Invite
           THEN /\ r # 0 /\ EventTable[r].eventID \in Outstanding(handle[1])
                /\ EventTable[a].membership = Join
           ELSE IF IsJoin(handle[1])
           THEN /\ r # 0 /\ EventTable[r].eventID = handle[1].eventRef
                /\ EventTable[a].membership = Leave
           ELSE FALSE

ScenarioCall ==
    /\ pc = "idle"
    /\ \E d \in Deltas :
       \E chs \in membershipChanges(d.removed, d.added) :
          /\ ScenarioStep(d)
          /\ updateMemberships(handle, chs, NoFault).status = "ok"
          /\ Returns(d, NoFault, chs)
    /\ UNCHANGED <<consumer, newInviteCount, retireCount>>

NextScenario == ScenarioCall \/ Commit

SpecScenario == Init /\ [][NextScenario]_vars

\* The invite IDs of participant 1.
ScenarioInviteIDs ==
    {EventTable[n].eventID :
        n \in {m \in EventNIDs : EventTable[m].membership = Invite /\ EventTable[m].keyNID = 1}}

\* C12: in the scenario invite E1, join E2, leave E3 of one participant from
\* a fresh updater, the invite call returns for the participant exactly the
\* new-invite event of E1, the join call exactly the retire-invite event
\* (E1, join, retired by E2, the participant), and the leave call, which
\* finds the participant joined with no outstanding invite, no event at all
\* and leaves the updater reporting left; over the three calls E1 has one
\* new-invite and one retire-invite event and no other invite has any.
C12_InviteJoinLeave ==
    /\ Returned =>
          \A i \in 1..Len(changes) :
              Target(i) = 1 =>
                  /\ status = "ok"
                  /\ New(i) = Invite =>
                        UpdatesFor(1) = <<[Type |-> "new_invite_event",
                                           Event |-> AddedEvent(i),
                                           RoomVersion |-> RoomVersion]>>
                  /\ New(i) = Join =>
                        /\ UpdatesFor(1) = <<[Type |-> "retire_invite_event",
                                              EventID |-> RemovedEvent(i).eventID,
                                              Membership |-> Join,
                                              RetiredByEventID |-> AddedEvent(i).eventID,
                                              TargetUserID |-> "@u1"]>>
                        /\ IsJoin(handle[1])
                  /\ New(i) = Leave =>
                        /\ Old(i) = Join
                        /\ IsJoin(pre[1]) /\ Outstanding(pre[1]) = {}
                        /\ UpdatesFor(1) = <<>>
                        /\ IsLeave(handle[1])
                        /\ handle[1].eventRef = AddedEvent(i).eventID
    /\ (pc = "idle" /\ IsLeave(handle[1]) /\ handle[1] # FreshHandle) =>
          \E e1 \in ScenarioInviteIDs :
              /\ handle[1].invites = {e1}
              /\ newInviteCount[e1] = 1
              /\ retireCount[e1] = 1
              /\ \A e \in ScenarioInviteIDs \ {e1} :
                    newInviteCount[e] = 0 /\ retireCount[e] = 0
              /\ consumer["@u1"] = {}

\* C12 witness: after invite $I1, join $J1 and leave $L1 the updater reports
\* left by $L1 and $I1 has had one new-invite and one retire-invite event.
C12_Witness ==
    /\ pc = "idle"
    /\ handle[1] = [membership |-> Leave, eventRef |-> "$L1",
                    invites |-> {"$I1"}, retired |-> {"$I1"}]
    /\ newInviteCount["$I1"] = 1
    /\ retireCount["$I1"] = 1
    /\ consumer["@u1"] = {}

\* C13 as stated: between calls every participant has at most one
\* outstanding invite in the updater.
C13_Original ==
    pc = "idle" => \A u \in UserNIDs : Cardinality(Outstanding(handle[u])) <= 1

\* The last call applied an invite transition for participant u with an
\* invite the updater had not recorded, although the updater already held
\* an outstanding invite: the delta did not show an invite as the old
\* membership.
SecondInviteApplied(u) ==
    \E i \in 1..Len(changes) :
        /\ Target(i) = u
        /\ AddedEvent(i) # Nil
        /\ Parses(i)
        /\ New(i) = Invite /\ Old(i) # Invite
        /\ Outstanding(pre[u]) # {}
        /\ AddedEvent(i).eventID \notin pre[u].invites

\* C13: a successful call leaves a participant who had at most one
\* outstanding invite with at most one, unless it applied an invite
\* transition with a not yet recorded invite while the updater already held
\* an outstanding one; an invite in place of an invite is skipped and never
\* adds a second invite.
C13_AtMostOneUnlessSecondInvite ==
    Returned /\ status = "ok" =>
        \A u \in UserNIDs :
            (Cardinality(Outstanding(pre[u])) <= 1 /\ ~SecondInviteApplied(u))
            => Cardinality(Outstanding(handle[u])) <= 1

\* C13 witness: participant 1 holds the outstanding invite $I1 and the call
\* puts $I2 in place of $I1; the updater still holds $I1 alone.
C13_Witness ==
    /\ Returned /\ status = "ok"
    /\ \E i \in 1..Len(changes) :
          /\ Target(i) = 1
          /\ RemovedEvent(i) # Nil /\ RemovedEvent(i).eventID = "$I1"
          /\ AddedEvent(i) # Nil /\ AddedEvent(i).eventID = "$I2"
    /\ Outstanding(pre[1]) = {"$I1"}
    /\ Outstanding(handle[1]) = {"$I1"}

-----------------------------------------------------------------------------
(* Two reconcile passes on the same participant, each in its own            *)
(* transaction.  A pass opens the participant's updater, asks IsJoin or     *)
(* IsLeave, calls the set operation and commits; the updater holds the lock *)
(* of the participant from the opening to the commit.                       *)

\* The added events of the changes updateMembership dispatches for
\* participant 1.
ConcEvents ==
    {n \in EventNIDs : /\ EventTable[n].typeNID = MRoomMemberNID
                       /\ EventTable[n].keyNID = 1
                       /\ EventTable[n].stored
                       /\ EventTable[n].membership \in {Invite, Join, Leave, Ban}}

\* The lock of the participant is free.
LockFree == tx.lock = 0

\* What the transition of a change to event n asks the updater first.
Classification(h, n) ==
    CASE EventTable[n].membership = Join -> IsJoin(h)
      [] EventTable[n].membership \in {Leave, Ban} -> IsLeave(h)
      [] OTHER -> FALSE

ConcFrame ==
    UNCHANGED <<pc, pre, removed, added, changes, fault, updates, status, errKind,
                failedAt, opened>>

\* updater.MembershipUpdater(targetUserNID): takes the lock of the participant.
Open(p) ==
    /\ tx.pass[p].pc = "idle"
    /\ LockFree
    /\ \A id \in InviteIDs : newInviteCount[id] < MaxNotify /\ retireCount[id] < MaxNotify
    /\ \E n \in ConcEvents :
          tx' = [lock |-> p,
                 pass |-> [tx.pass EXCEPT ![p] =
                              [pc |-> IF EventTable[n].membership = Invite
                                      THEN "checked" ELSE "opened",
                               add |-> n, seen |-> FALSE, updates |-> <<>>]]]
    /\ ConcFrame
    /\ UNCHANGED <<handle, consumer, newInviteCount, retireCount>>

\* mu.IsJoin() or mu.IsLeave().
Check(p) ==
    /\ tx.pass[p].pc = "opened"
    /\ tx' = [tx EXCEPT !.pass[p].pc = "checked",
                        !.pass[p].seen = Classification(handle[1], tx.pass[p].add)]
    /\ ConcFrame
    /\ UNCHANGED <<handle, consumer, newInviteCount, retireCount>>

\* The rest of the transition: the set operation and the output events.
Apply(p) ==
    /\ tx.pass[p].pc = "checked"
    /\ LET add == EventTable[tx.pass[p].add]
           r == CASE add.membership = Invite ->
                        updateToInviteMembership(handle[1], add, <<>>, RoomVersion, FALSE)
                  [] add.membership = Join ->
                        updateToJoinMembershipGiven(tx.pass[p].seen, handle[1], add, <<>>,
                                                    FALSE)
                  [] OTHER ->
                        updateToLeaveMembershipGiven(tx.pass[p].seen, handle[1], add,
                                                     add.membership, <<>>, FALSE)
       IN  /\ handle' = [handle EXCEPT ![1] = r.mu]
           /\ tx' = [tx EXCEPT !.pass[p].pc = "applied", !.pass[p].updates = r.updates]
    /\ ConcFrame
    /\ UNCHANGED <<consumer, newInviteCount, retireCount>>

\* The caller commits: the output events are published and the lock is released.
CommitPass(p) ==
    /\ tx.pass[p].pc = "applied"
    /\ consumer' = Replay(consumer, tx.pass[p].updates)
    /\ newInviteCount' = [id \in InviteIDs |->
                             newInviteCount[id] + NewInvitesOf(tx.pass[p].updates, id)]
    /\ retireCount' = [id \in InviteIDs |->
                          retireCount[id] + RetiresOf(tx.pass[p].updates, id)]
    /\ tx' = [lock |-> IF tx.lock = p THEN 0 ELSE tx.lock,
              pass |-> [tx.pass EXCEPT ![p] = IdlePass]]
    /\ ConcFrame
    /\ UNCHANGED handle

NextConc == \E p \in Passes : Open(p) \/ Check(p) \/ Apply(p) \/ CommitPass(p)

SpecConc == Init /\ [][NextConc]_vars

\* The retire-invite events for invite id: published, or returned by a pass
\* that has not committed yet.
RetiresSoFar(id) ==
    retireCount[id] + RetiresOf(tx.pass[1].updates, id) + RetiresOf(tx.pass[2].updates, id)

\* C14: with the lock held from the opening of the updater to the commit,
\* two passes on the same participant run as if one after the other: a pass
\* inside its transaction holds the lock, so the other pass is outside; what
\* IsJoin or IsLeave answered still holds when the set operation is called;
\* no invite has two retire-invite events, every retired invite has one,
\* and a participant who joined or left has no outstanding invite.
C14_PassesSerialize ==
    /\ \A p \in Passes : tx.pass[p].pc # "idle" => tx.lock = p
    /\ \A p \in Passes :
          tx.pass[p].pc = "checked" =>
              tx.pass[p].seen = Classification(handle[1], tx.pass[p].add)
    /\ \A id \in InviteIDs : RetiresSoFar(id) <= 1
    /\ \A id \in handle[1].retired : RetiresSoFar(id) = 1
    /\ (IsJoin(handle[1]) \/ IsLeave(handle[1])) => Outstanding(handle[1]) = {}
    /\ tx.lock = 0 => consumer["@u1"] = Outstanding(handle[1])

\* C14 witness: pass 2 waits outside while pass 1, which found the invited
\* participant not joined, has retired the invite $I1 by the join $J1 and
\* has not committed yet.
C14_Witness ==
    /\ tx.lock = 1
    /\ tx.pass[1].pc = "applied"
    /\ tx.pass[1].add = 3
    /\ tx.pass[1].updates = <<[Type |-> "retire_invite_event", EventID |-> "$I1",
                               Membership |-> Join, RetiredByEventID |-> "$J1",
                               TargetUserID |-> "@u1"]>>
    /\ tx.pass[2].pc = "idle"
    /\ newInviteCount["$I2"] = 1
    /\ Outstanding(handle[1]) = {}

\* Change i of the last call got past the no-op test and the nil test of
\* updateMembership.
Dispatched(i) ==
    /\ Reached(i)
    /\ Parses(i)
    /\ AddedEvent(i) # Nil
    /\ ~(Old(i) = New(i) /\ New(i) # Join)

\* C15: in one call MembershipUpdater is called exactly once for each
\* participant whose change gets past the no-op test and the nil test, for
\* no other participant, and never twice for the same participant.
C15_OneUpdaterPerParticipant ==
    Returned =>
        /\ \A j, k \in 1..Len(opened) : opened[j] = opened[k] => j = k
        /\ \A u \in UserNIDs :
              u \in Range(opened) <=> \E i \in 1..Len(changes) : Target(i) = u /\ Dispatched(i)

\* C15 witness: a successful call with a change for each of the two
\* participants has opened the updater of each once, and no more.
C15_Witness ==
    /\ Returned /\ status = "ok"
    /\ Len(changes) = 2
    /\ Len(opened) = 2
    /\ Range(opened) = {1, 2}

\* The state entries of the last call's delta that are membership entries.
MemberEntries ==
    {e \in Range(removed) \cup Range(added) : e.tuple.EventTypeNID = MRoomMemberNID}

\* C16: the changes the call processes are exactly the paired changes of
\* the membership tuples of the delta: each has the membership type and the
\* event NIDs its tuple has on the two sides, each membership tuple of the
\* delta has one, and no tuple has two; a delta without a membership entry
\* opens no updater, returns no output event and changes no updater.
C16_MembershipFilter ==
    Returned =>
        /\ \A i \in 1..Len(changes) :
              /\ changes[i].tuple.EventTypeNID = MRoomMemberNID
              /\ changes[i].removedEventNID = SideNID(removed, changes[i].tuple)
              /\ changes[i].addedEventNID = SideNID(added, changes[i].tuple)
        /\ \A e \in MemberEntries : \E i \in 1..Len(changes) : changes[i].tuple = e.tuple
        /\ \A i, j \in 1..Len(changes) : changes[i].tuple = changes[j].tuple => i = j
        /\ MemberEntries = {} =>
              /\ changes = <<>>
              /\ opened = <<>>
              /\ updates = <<>>
              /\ handle = pre
              /\ fault.kind # "events" => status = "ok"

\* C16 witness: a delta with an entry of another event type and nothing
\* else has been processed: no change, no updater, no output event.
C16_Witness ==
    /\ Returned /\ status = "ok"
    /\ added # <<>>
    /\ \A i \in 1..Len(added) : added[i].tuple.EventTypeNID = OtherTypeNID
    /\ removed = <<>>
    /\ changes = <<>>
    /\ opened = <<>>
    /\ updates = <<>>

\* C17: when the call succeeded, processing the changes of the same delta
\* in any other order from the same updaters succeeds as well, returns the
\* same set of output events and leaves every updater in the same state.
C17_OrderIndependent ==
    Returned /\ status = "ok" =>
        \A chs \in membershipChanges(removed, added) :
            LET other == updateMemberships(pre, chs, fault)
            IN  /\ other.status = "ok"
                /\ Range(other.updates) = Range(updates)
                /\ other.handle = handle

\* C17 witness: a call with a change for each participant, for which the
\* pairer can return two orders, has invited the one and joined the other
\* with the retirement of an invite.
C17_Witness ==
    /\ Returned /\ status = "ok"
    /\ Len(changes) = 2
    /\ Cardinality(membershipChanges(removed, added)) = 2
    /\ Len(updates) = 2
    /\ Outstanding(pre[1]) = {"$I1"} /\ IsJoin(handle[1])
    /\ Outstanding(pre[2]) = {} /\ Outstanding(handle[2]) = {"$I3"}

\* C18: a change to leave or ban for a participant whose updater already
\* reports leave, a ban after a leave included, calls no set operation and
\* appends nothing: the updater keeps its membership and its event
\* reference, the call returns no output event for the participant, and a
\* failing set operation cannot fail the change.
C18_LeaveOnLeftIsFrame ==
    Returned =>
        \A i \in 1..Len(changes) :
            (/\ Reached(i)
             /\ AddedEvent(i) # Nil
             /\ Parses(i)
             /\ New(i) \in {Leave, Ban}
             /\ IsLeave(pre[Target(i)]))
            => /\ handle[Target(i)] = pre[Target(i)]
               /\ UpdatesFor(Target(i)) = <<>>
               /\ OpFails(fault, Target(i)) => failedAt # i

\* C18 witness: participant 1 has left by $L1 and the call puts the ban $B1
\* in place of $L1 while the set operations of the updater fail; the call
\* succeeds and the updater still refers to $L1.
C18_Witness ==
    /\ Returned /\ status = "ok"
    /\ fault = [kind |-> "op", user |-> 1]
    /\ \E i \in 1..Len(changes) :
          /\ Target(i) = 1
          /\ RemovedEvent(i) # Nil /\ RemovedEvent(i).eventID = "$L1"
          /\ AddedEvent(i) # Nil /\ AddedEvent(i).eventID = "$B1"
    /\ 1 \in Range(opened)
    /\ pre[1].membership = Leave /\ pre[1].eventRef = "$L1"
    /\ handle[1] = pre[1]
    /\ updates = <<>>

\* The removed event of change i is one the store omits, and its added
\* event is a stored invite, join or ban.
MissingRemoved(i) ==
    /\ changes[i].removedEventNID # 0
    /\ ~EventTable[changes[i].removedEventNID].stored
    /\ changes[i].addedEventNID # 0
    /\ EventTable[changes[i].addedEventNID].stored
    /\ EventTable[changes[i].addedEventNID].membership \in {Invite, Join, Ban}

\* C19: a removed event whose body the batch load omits is no error: the
\* change is processed as with no removed event, that is with old
\* membership leave.  Unless the updater itself fails, the change does not
\* fail, the updater is opened and the invite, join or ban is applied; a
\* call with this change alone succeeds and returns what the call with the
\* removed side absent returns.
C19_MissingRemovedIsLeave ==
    Returned =>
        \A i \in 1..Len(changes) :
            (/\ Reached(i)
             /\ MissingRemoved(i)
             /\ ~OpenFails(fault, Target(i))
             /\ ~OpFails(fault, Target(i)))
            => LET u == Target(i)
                   add == EventTable[changes[i].addedEventNID]
                   absent == updateMemberships(
                                 pre, <<[changes[i] EXCEPT !.removedEventNID = 0]>>, fault)
               IN  /\ failedAt # i
                   /\ u \in Range(opened)
                   /\ add.membership = Invite =>
                         /\ handle[u].membership = Invite
                         /\ add.eventID \in handle[u].invites
                   /\ add.membership = Join =>
                         /\ IsJoin(handle[u])
                         /\ handle[u].eventRef = add.eventID
                         /\ Outstanding(handle[u]) = {}
                   /\ add.membership = Ban =>
                         /\ IsLeave(handle[u])
                         /\ Outstanding(handle[u]) = {}
                   /\ Len(changes) = 1 =>
                         /\ status = "ok"
                         /\ handle = absent.handle
                         /\ updates = absent.updates

\* C19 witness: the removed event is $G1, whose body the store omits, the
\* added event is the invite $I1, and the call has succeeded with the
\* new-invite event of $I1.
C19_Witness ==
    /\ Returned /\ status = "ok"
    /\ Len(changes) = 1
    /\ changes[1].removedEventNID = 7
    /\ changes[1].addedEventNID = 1
    /\ Len(updates) = 1
    /\ updates[1].Type = "new_invite_event"
    /\ updates[1].Event.eventID = "$I1"
    /\ handle[1].membership = Invite

\* C20: over any sequence of calls no invite event ID is named by more than
\* one retire-invite event, counting the published ones and those the last
\* call returned, and every retire-invite event a call returns names an
\* invite that was outstanding in the updater of its target participant
\* when the call began.
C20_RetireOnceAndOutstanding ==
    /\ \A id \in InviteIDs : retireCount[id] + RetiresOf(updates, id) <= 1
    /\ Returned =>
          \A k \in 1..Len(updates) :
              updates[k].Type = "retire_invite_event" =>
                  \E u \in UserNIDs :
                      /\ UserID(u) = updates[k].TargetUserID
                      /\ updates[k].EventID \in Outstanding(pre[u])

\* C20 witness: $I2 was retired by an earlier call, and the last call
\* retires $I1, which was outstanding when it began.
C20_Witness ==
    /\ Returned /\ status = "ok"
    /\ retireCount["$I2"] = 1
    /\ retireCount["$I1"] = 0
    /\ RetiresOf(updates, "$I1") = 1
    /\ "$I1" \in Outstanding(pre[1])
    /\ "$I1" \notin Outstanding(handle[1])

====
